---- MODULE Spec2Model ----
(***************************************************************************)
(* A model of the repeatable parts of korea-food-lists:                    *)
(*   - the Blue Ribbon paginated fetcher with backoff                      *)
(*     (build_map_list.py: bluer_get_json, hal_extract_items,              *)
(*      collect_bluer_restaurants_zone; bluer_probe.py:                    *)
(*      get_restaurants_page, collect_restaurants_hal),                    *)
(*   - the place merger (build_map_list.py: normalize_key, merge_places). *)
(* Spec is the fetcher, SpecMerge the merger.                              *)
(***************************************************************************)
EXTENDS Integers, Sequences, FiniteSets, TLC

VARIABLES
    impl,          \* "build" (build_map_list.py) or "probe" (bluer_probe.py)
    max_pages,     \* collect_*: max_pages argument
    max_attempts,  \* bluer_get_json: max_attempts argument
    pc,            \* "first" | "next" (inside the fetch of that page) | "done" | "raised"
    page_num,      \* collect_*: page_num (0 while page 1 is being fetched)
    attempt,       \* attempt counter of the running fetch loop
    next_href,     \* collect_*: next_href, [present, text]
    all_items,     \* collect_*: all_items
    ret,           \* value returned by collect_*: [present, items]
    err,           \* exception that left collect_*, "None" if none
    wait,          \* last computed backoff wait, in 1/JitterSteps seconds
    wait_path,     \* how wait was computed: "none" | "retry_after" | "exp"
    prev_wait,     \* the wait computed by the attempt before, same unit
    prev_path,     \* and its path
    call,          \* the running (or last finished) page fetch, as the server saw it:
                   \* [gets, backoffs, rate_limited, last_status, outcome]
    fetched,       \* the documents of the pages fetched so far, in fetch order
    lists,         \* merge_places: the argument lists
    result,        \* merge_places(*lists)
    result_rev,    \* merge_places of the lists in the opposite order
    again,         \* merge_places(result)
    twice,         \* merge_places(result, result)
    folds,         \* merge_places: every fold of a record into a held one, [cur, p, better]
    mpc,           \* which of the merges have been computed
    api_key,       \* os.getenv("KAKAO_REST_API_KEY"), [present, text]
    bluer_items,   \* Blue Ribbon API items the places are built from
    places,        \* enrich_with_kakao: the argument
    out,           \* enrich_with_kakao: out
    epc,           \* "build" | "enrich" (before the next keyword search) |
                   \* "returned" | "raised" | "written"
    idx,           \* position in places of the record being enriched
    cand,          \* number of candidate queries already tried for it
    elog,          \* sleeps and searches of the record enriched last, in order
    queried,       \* positions a keyword search was issued for in this run
    held,          \* positions resolved by an earlier run: [found, missed]
    run,           \* "none" | "first" | "later": the enrichment run
    eerr,          \* exception that left enrich_with_kakao, "None" if none
    features,      \* write_geojson: the features written
    max_results,   \* discover_restaurants: the argument
    page,          \* discover_restaurants: page of the last request, 0 before it
    all_places,    \* discover_restaurants: all_places
    dpc,           \* "loop" | "returned" | "raised"
    dret,          \* discover_restaurants: the list returned, [present, items]
    dlog,          \* discover_restaurants: the requests and sleeps so far, in order
    image_bytes,   \* evaluate_restaurant: whether a bottom image was fetched
    extracted_facts, \* evaluate_restaurant: extracted_facts
    cpc,           \* "analyst" | "critic" | "returned"
    evaluation,    \* value returned by evaluate_restaurant: [present, kind, score, award_level]
    clog,          \* evaluate_restaurant: the model calls so far, in order
    list_page,     \* michelin_list_page_urls: page
    urls,          \* michelin_list_page_urls: urls
    lpc,           \* "loop" | "returned" | "raised"
    list_gets,     \* michelin_list_page_urls: list pages requested so far
    stopped,       \* why the loop was left: "" | "404" | "no links" | "no new" |
                   \* "limit" | "error"
    csv_exists,    \* os.path.isfile(CSV_FILENAME)
    csv_lines,     \* the lines of the review-queue CSV, [header, name]
    seen_places,   \* run_massive_pipeline: seen_places, a set of [present, text]
    ppc,           \* "start" | "place" | "search" | "scrape" | "evaluate" | "ended"
    restaurant_name, \* run_massive_pipeline: restaurant_name
    runs,          \* runs of run_massive_pipeline started so far
    fate,          \* what became of the place handled last, or how the run ended
    redone         \* [name, step]: steps taken for a restaurant that had a row

fetch_vars == <<impl, max_pages, max_attempts, pc, page_num, attempt, next_href,
                all_items, ret, err, wait, wait_path, prev_wait, prev_path, call,
                fetched>>
merge_vars == <<lists, result, result_rev, again, twice, folds, mpc>>
enrich_vars == <<api_key, bluer_items, places, out, epc, idx, cand, elog, queried, held,
                 run, eerr, features>>
disc_vars == <<max_results, page, all_places, dpc, dret, dlog>>
crit_vars == <<image_bytes, extracted_facts, cpc, evaluation, clog>>
mich_vars == <<list_page, urls, lpc, list_gets, stopped>>
pipe_vars == <<csv_exists, csv_lines, seen_places, ppc, restaurant_name, runs, fate,
               redone>>
agent_vars == <<disc_vars, crit_vars, mich_vars, pipe_vars>>
not_disc == <<fetch_vars, merge_vars, enrich_vars, crit_vars, mich_vars, pipe_vars>>
not_crit == <<fetch_vars, merge_vars, enrich_vars, disc_vars, mich_vars, pipe_vars>>
not_mich == <<fetch_vars, merge_vars, enrich_vars, disc_vars, crit_vars, pipe_vars>>
not_pipe == <<fetch_vars, merge_vars, enrich_vars, disc_vars, crit_vars, mich_vars>>
vars == <<fetch_vars, merge_vars, enrich_vars, agent_vars>>

----
\* Bounds of the model.
MaxPages == 2        \* max_pages is drawn from 0..MaxPages
MaxAttempts == 2     \* max_attempts is drawn from 1..MaxAttempts (and the default)
JitterSteps == 2     \* random.uniform draws are k/JitterSteps of their range
MaxPlaces == 3       \* total number of records in the lists given to merge_places
MaxItems == 2        \* number of Blue Ribbon items the places are built from
MaxResults == 2      \* max_results is drawn from 0..MaxResults (and the default)
MaxRuns == 2         \* runs of run_massive_pipeline over one CSV

\* Program constants.
DefaultMaxAttempts == 10
BackoffCapS == 120
ExponentCap == 6
ProbeMaxAttempts == 6
ProbeBackoffCapS == 60

----
\* Generic helpers.
Min(a, b) == IF a <= b THEN a ELSE b

RECURSIVE Pow2(_)
Pow2(n) == IF n <= 0 THEN 1 ELSE 2 * Pow2(n - 1)

RECURSIVE Flatten(_)
Flatten(ss) == IF ss = <<>> THEN <<>> ELSE Head(ss) \o Flatten(Tail(ss))

Reverse(s) == [i \in 1..Len(s) |-> s[Len(s) + 1 - i]]

\* Strings the code inspects are sequences of one-character strings.
Digits == {"0", "1", "2", "3", "4", "5", "6", "7", "8", "9"}
DigitVal(c) ==
    CASE c = "0" -> 0 [] c = "1" -> 1 [] c = "2" -> 2 [] c = "3" -> 3 [] c = "4" -> 4
      [] c = "5" -> 5 [] c = "6" -> 6 [] c = "7" -> 7 [] c = "8" -> 8 [] OTHER -> 9

RECURSIVE LStrip(_)
LStrip(s) == IF s # <<>> /\ Head(s) = " " THEN LStrip(Tail(s)) ELSE s

\* str.strip()
Strip(s) == Reverse(LStrip(Reverse(LStrip(s))))

\* str.isdigit(): non-empty and all digits
IsDigit(s) == s # <<>> /\ \A i \in 1..Len(s) : s[i] \in Digits

\* float(s) for a string of digits
RECURSIVE ParseDigits(_)
ParseDigits(s) ==
    IF s = <<>> THEN 0
    ELSE 10 * ParseDigits(SubSeq(s, 1, Len(s) - 1)) + DigitVal(s[Len(s)])

----
\* The server's answers.
NoHeader == [present |-> FALSE, text |-> <<>>]
Header(t) == [present |-> TRUE, text |-> t]

\* Retry-After: absent, seconds, seconds with a blank, an HTTP date.
RetryAfterHeaders ==
    {NoHeader, Header(<<"7">>), Header(<<" ", "7">>), Header(<<"W", "e", "d">>)}

RateLimitStatuses == {429, 503}
ErrorStatuses == {404, 500}

Item(id) == [isdict |-> TRUE, id |-> id]
Scalar(id) == [isdict |-> FALSE, id |-> id]
ListVal(es) == [islist |-> TRUE, elems |-> es]
NotAList == [islist |-> FALSE, elems |-> <<>>]

\* _embedded: missing, or a dict given by its values in insertion order.
Embeddeds ==
    { [present |-> FALSE, vals |-> <<>>],
      [present |-> TRUE, vals |-> <<ListVal(<<>>)>>],
      [present |-> TRUE, vals |-> <<ListVal(<<Item("a")>>)>>],
      [present |-> TRUE, vals |-> <<ListVal(<<Item("b"), Item("a")>>)>>],
      [present |-> TRUE, vals |-> <<NotAList, ListVal(<<Item("b")>>)>>],
      [present |-> TRUE, vals |-> <<ListVal(<<Scalar("x")>>), ListVal(<<Item("a")>>)>>] }

\* _links.next.href: missing (or not a string), the empty string, a path.
NextLinks == {NoHeader, Header(<<>>), Header(<<"/", "p">>)}

Docs == [embedded : Embeddeds, next : NextLinks]

\* hal_extract_items, the item list: the first value of _embedded that is a list,
\* empty or starting with a dict.
RECURSIVE FirstItemList(_)
FirstItemList(vals) ==
    IF vals = <<>> THEN <<>>
    ELSE LET v == Head(vals) IN
         IF v.islist /\ (v.elems = <<>> \/ v.elems[1].isdict)
         THEN v.elems
         ELSE FirstItemList(Tail(vals))

HalItems(doc) == IF doc.embedded.present THEN FirstItemList(doc.embedded.vals) ELSE <<>>

\* hal_extract_items, the next link.
HalNext(doc) == doc.next

hal_extract_items(doc) == [items |-> HalItems(doc), next_href |-> HalNext(doc)]

\* Python truth value of an Optional[str].
Truthy(s) == s.present /\ s.text # <<>>

----
\* bluer_get_json.
IsRateLimit(status) == status \in {429, 503}

\* "if retry_after and retry_after.strip().isdigit()"
NumericRetryAfter(h) == Truthy(h) /\ IsDigit(Strip(h.text))

\* min(120.0, 2.0 ** min(attempt, 6) + jitter), jitter = j / JitterSteps
ExpWait(n, j) == Min(BackoffCapS * JitterSteps, Pow2(Min(n, ExponentCap)) * JitterSteps + j)

BluerWait(h, n, j) ==
    IF NumericRetryAfter(h) THEN ParseDigits(Strip(h.text)) * JitterSteps ELSE ExpWait(n, j)

BluerWaitPath(h) == IF NumericRetryAfter(h) THEN "retry_after" ELSE "exp"

\* a mutant: the attempt that reaches the cap is not the last one
ExhaustedOffByOne(n, cap) == n > cap

\* a mutant: the fetch gives up one attempt early
ExhaustedEarly(n, cap) == n + 1 >= cap

\* "if attempt >= max_attempts: r.raise_for_status()"
Exhausted(n, cap) == n >= cap

----
\* collect_restaurants_hal (bluer_probe.py).
\* "retry_after and retry_after.isdigit()"
ProbeNumericRetryAfter(h) == Truthy(h) /\ IsDigit(h.text)

\* float(retry_after) or min(60.0, 2.0 ** attempt)
ProbeWait(h, n) ==
    IF ProbeNumericRetryAfter(h) THEN ParseDigits(h.text) * JitterSteps
    ELSE Min(ProbeBackoffCapS * JitterSteps, Pow2(n) * JitterSteps)

ProbeWaitPath(h) == IF ProbeNumericRetryAfter(h) THEN "retry_after" ELSE "exp"

----
\* The page loop shared by collect_bluer_restaurants_zone and collect_restaurants_hal.
NoCall == [gets |-> 0, backoffs |-> 0, rate_limited |-> 0, last_status |-> 0,
           outcome |-> "running"]
NoRet == [present |-> FALSE, items |-> <<>>]

\* a mutant: each page replaces the list instead of extending it
AccumulateReplace(all, items) == items

\* "all_items.extend(items)"
Accumulate(all, items) == all \o items

\* a mutant: the page cap is tested one page late
LoopOffByOne(nh, pn) == Truthy(nh) /\ pn <= max_pages

\* "while next_href and page_num < max_pages"
LoopCondition(nh, pn) == Truthy(nh) /\ pn < max_pages

\* The caller's code from the return of a page fetch to the next request (or to
\* the return of the collector).
AfterPage(doc) ==
    LET ex == hal_extract_items(doc)
        first == pc = "first"
        all == IF first THEN ex.items ELSE Accumulate(all_items, ex.items)
        pn == IF first THEN 1 ELSE page_num
        brk == ~first /\ ex.items = <<>>
        cont == ~brk /\ LoopCondition(ex.next_href, pn)
    IN  /\ all_items' = all
        /\ next_href' = ex.next_href
        /\ page_num' = IF cont THEN pn + 1 ELSE pn
        /\ pc' = IF cont THEN "next" ELSE "done"
        /\ ret' = IF cont THEN NoRet ELSE [present |-> TRUE, items |-> all]
        /\ fetched' = Append(fetched, doc)
        /\ attempt' = 0
        /\ err' = err

\* The exception leaves the collector: nothing is returned.
Raise(e) ==
    /\ pc' = "raised"
    /\ err' = e
    /\ ret' = NoRet
    /\ UNCHANGED <<page_num, next_href, all_items, fetched>>

\* The request of one GET and its answer, as the server saw it.
Answered(c, status, outcome) ==
    [gets |-> c.gets + 1, backoffs |-> c.backoffs,
     rate_limited |-> c.rate_limited + (IF status \in {429, 503} THEN 1 ELSE 0),
     last_status |-> status, outcome |-> outcome]

\* the call record at the first GET of a page fetch
ThisCall == IF attempt = 0 THEN NoCall ELSE call

Fetching == pc \in {"first", "next"}

----
\* bluer_get_json, one pass of "while True".

\* 429 or 503
BluerRateLimited(status, h, j) ==
    /\ impl = "build" /\ Fetching
    /\ IsRateLimit(status)
    /\ attempt' = attempt + 1
    /\ wait' = BluerWait(h, attempt + 1, j)
    /\ wait_path' = BluerWaitPath(h)
    /\ prev_wait' = IF attempt = 0 THEN 0 ELSE wait
    /\ prev_path' = IF attempt = 0 THEN "none" ELSE wait_path
    /\ IF Exhausted(attempt + 1, max_attempts)
       THEN /\ call' = [Answered(ThisCall, status, "raised") EXCEPT !.backoffs = @ + 1]
            /\ Raise("HTTPError")
       ELSE /\ call' = [Answered(ThisCall, status, "running") EXCEPT !.backoffs = @ + 1]
            /\ UNCHANGED <<pc, err, ret, page_num, next_href, all_items, fetched>>
    /\ UNCHANGED <<impl, max_pages, max_attempts, merge_vars, enrich_vars, agent_vars>>

\* another 4xx/5xx: r.raise_for_status()
BluerHttpError(status) ==
    /\ impl = "build" /\ Fetching
    /\ ~IsRateLimit(status)
    /\ attempt' = attempt + 1
    /\ call' = Answered(ThisCall, status, "raised")
    /\ Raise("HTTPError")
    /\ UNCHANGED <<wait, wait_path, prev_wait, prev_path>>
    /\ UNCHANGED <<impl, max_pages, max_attempts, merge_vars, enrich_vars, agent_vars>>

\* 200 whose body is not JSON (r.json() raises) or not a dict (TypeError)
BluerBadBody(e) ==
    /\ impl = "build" /\ Fetching
    /\ attempt' = attempt + 1
    /\ call' = Answered(ThisCall, 200, "raised")
    /\ Raise(e)
    /\ UNCHANGED <<wait, wait_path, prev_wait, prev_path>>
    /\ UNCHANGED <<impl, max_pages, max_attempts, merge_vars, enrich_vars, agent_vars>>

\* s.get raises (timeout, connection error)
BluerTimeout ==
    /\ impl = "build" /\ Fetching
    /\ attempt' = attempt + 1
    /\ call' = Answered(ThisCall, 0, "raised")
    /\ Raise("Timeout")
    /\ UNCHANGED <<wait, wait_path, prev_wait, prev_path>>
    /\ UNCHANGED <<impl, max_pages, max_attempts, merge_vars, enrich_vars, agent_vars>>

\* 200 with a JSON object: bluer_get_json returns it and the collector goes on
BluerOk(doc) ==
    /\ impl = "build" /\ Fetching
    /\ call' = Answered(ThisCall, 200, "returned")
    /\ AfterPage(doc)
    /\ UNCHANGED <<wait, wait_path, prev_wait, prev_path>>
    /\ UNCHANGED <<impl, max_pages, max_attempts, merge_vars, enrich_vars, agent_vars>>

----
\* bluer_probe.py: get_restaurants_page (page 1) and the retry loop of
\* collect_restaurants_hal (the next pages).

\* page 1: r.raise_for_status() on any error status, 429 included
ProbeFirstError(status) ==
    /\ impl = "probe" /\ pc = "first"
    /\ attempt' = attempt + 1
    /\ call' = Answered(ThisCall, status, "raised")
    /\ Raise("HTTPError")
    /\ UNCHANGED <<wait, wait_path, prev_wait, prev_path>>
    /\ UNCHANGED <<impl, max_pages, max_attempts, merge_vars, enrich_vars, agent_vars>>

ProbeFirstOk(doc) ==
    /\ impl = "probe" /\ pc = "first"
    /\ call' = Answered(ThisCall, 200, "returned")
    /\ AfterPage(doc)
    /\ UNCHANGED <<wait, wait_path, prev_wait, prev_path>>
    /\ UNCHANGED <<impl, max_pages, max_attempts, merge_vars, enrich_vars, agent_vars>>

\* next page, 429: wait and try again while attempt < 6, then doc is None
ProbeRateLimited(h) ==
    /\ impl = "probe" /\ pc = "next"
    /\ attempt' = attempt + 1
    /\ wait' = ProbeWait(h, attempt + 1)
    /\ wait_path' = ProbeWaitPath(h)
    /\ prev_wait' = IF attempt = 0 THEN 0 ELSE wait
    /\ prev_path' = IF attempt = 0 THEN "none" ELSE wait_path
    /\ IF attempt + 1 < ProbeMaxAttempts
       THEN /\ call' = [Answered(ThisCall, 429, "running") EXCEPT !.backoffs = @ + 1]
            /\ UNCHANGED <<pc, err, ret, page_num, next_href, all_items, fetched>>
       ELSE /\ call' = [Answered(ThisCall, 429, "raised") EXCEPT !.backoffs = @ + 1]
            /\ Raise("HTTPError")
    /\ UNCHANGED <<impl, max_pages, max_attempts, merge_vars, enrich_vars, agent_vars>>

\* next page, another error status (503 included): r.raise_for_status()
ProbeHttpError(status) ==
    /\ impl = "probe" /\ pc = "next"
    /\ status # 429
    /\ attempt' = attempt + 1
    /\ call' = Answered(ThisCall, status, "raised")
    /\ Raise("HTTPError")
    /\ UNCHANGED <<wait, wait_path, prev_wait, prev_path>>
    /\ UNCHANGED <<impl, max_pages, max_attempts, merge_vars, enrich_vars, agent_vars>>

ProbeOk(doc) ==
    /\ impl = "probe" /\ pc = "next"
    /\ call' = Answered(ThisCall, 200, "returned")
    /\ AfterPage(doc)
    /\ UNCHANGED <<wait, wait_path, prev_wait, prev_path>>
    /\ UNCHANGED <<impl, max_pages, max_attempts, merge_vars, enrich_vars, agent_vars>>

----
\* The arguments: every (max_pages, max_attempts) within the bounds, and one page
\* under the default attempt cap.
FetchConfigs ==
    {<<"build", mp, ma>> : mp \in 0..MaxPages, ma \in 1..MaxAttempts}
    \cup {<<"build", 1, DefaultMaxAttempts>>}
    \cup {<<"probe", mp, ProbeMaxAttempts>> : mp \in 0..MaxPages}

FetchStart ==
    /\ pc = "first" /\ page_num = 0 /\ attempt = 0
    /\ next_href = NoHeader /\ all_items = <<>>
    /\ ret = NoRet /\ err = "None"
    /\ wait = 0 /\ wait_path = "none" /\ prev_wait = 0 /\ prev_path = "none"
    /\ call = NoCall /\ fetched = <<>>

MergeIdle ==
    /\ lists = <<>> /\ result = <<>> /\ result_rev = <<>>
    /\ again = <<>> /\ twice = <<>> /\ folds = <<>> /\ mpc = "idle"

\* The enrichment variables while another component is run.
EnrichIdle ==
    /\ api_key = [present |-> FALSE, text |-> <<>>]
    /\ bluer_items = <<>> /\ places = <<>> /\ out = <<>>
    /\ epc = "idle" /\ idx = 0 /\ cand = 0 /\ elog = [pos |-> 0, evs |-> <<>>]
    /\ queried = {} /\ held = [found |-> {}, missed |-> {}]
    /\ run = "none" /\ eerr = "None" /\ features = <<>>

\* The variables of discover_restaurants while another component is run.
DiscIdle ==
    /\ max_results = 0 /\ page = 0 /\ all_places = <<>>
    /\ dpc = "idle" /\ dret = [present |-> FALSE, items |-> <<>>] /\ dlog = <<>>

\* The variables of evaluate_restaurant while another component is run.
NoEvaluation == [present |-> FALSE, kind |-> "None", score |-> 0, award_level |-> ""]
CritIdle ==
    /\ image_bytes = FALSE /\ extracted_facts = "" /\ cpc = "idle"
    /\ evaluation = NoEvaluation /\ clog = <<>>

\* The variables of michelin_list_page_urls while another component is run.
MichIdle ==
    /\ list_page = 0 /\ urls = <<>> /\ lpc = "idle" /\ list_gets = 0 /\ stopped = ""

\* The variables of run_massive_pipeline while another component is run.
PipeIdle ==
    /\ csv_exists = FALSE /\ csv_lines = <<>> /\ seen_places = {} /\ ppc = "idle"
    /\ restaurant_name = "" /\ runs = 0 /\ fate = "" /\ redone = {}

AgentIdle == DiscIdle /\ CritIdle /\ MichIdle /\ PipeIdle

Init ==
    /\ \E c \in FetchConfigs : impl = c[1] /\ max_pages = c[2] /\ max_attempts = c[3]
    /\ FetchStart
    /\ MergeIdle
    /\ EnrichIdle
    /\ AgentIdle

Next ==
    \/ \E s \in RateLimitStatuses, h \in RetryAfterHeaders, j \in 0..JitterSteps :
          BluerRateLimited(s, h, j)
    \/ \E s \in ErrorStatuses : BluerHttpError(s)
    \/ \E e \in {"JSONDecodeError", "TypeError"} : BluerBadBody(e)
    \/ BluerTimeout
    \/ \E d \in Docs : BluerOk(d)
    \/ \E s \in RateLimitStatuses \cup ErrorStatuses : ProbeFirstError(s)
    \/ \E d \in Docs : ProbeFirstOk(d)
    \/ \E h \in RetryAfterHeaders : ProbeRateLimited(h)
    \/ \E s \in {503} \cup ErrorStatuses : ProbeHttpError(s)
    \/ \E d \in Docs : ProbeOk(d)

Spec == Init /\ [][Next]_vars

\* Every GET is answered or times out (timeout=30) and every sleep ends: the
\* fetcher always takes its next step.
SpecFair == Spec /\ WF_vars(Next)

----
\* The place merger (build_map_list.py).

\* Optional[str] and Optional[float] fields.
NoneStr == [present |-> FALSE, text |-> <<>>]
Str(t) == [present |-> TRUE, text |-> t]
NoneNum == [present |-> FALSE, v |-> 0]
Num(n) == [present |-> TRUE, v |-> n]

\* The records the merger is run on.
KimS == <<"K", "i", "m", "'", "s">>
KimSpaced == <<"K", "I", "M", " ", "S">>
Lee == <<"L", "e", "e">>
MainSt == <<"1", "2", " ", "M", "a", "i", "n", " ", "S", "t">>
MainStDotted == <<"1", "2", " ", "m", "a", "i", "n", " ", "s", "t", ".">>
Blank == <<" ">>
Site == <<"u">>

Place(source, name, address, lat, lon, url) ==
    [source |-> source, name |-> name, address |-> address,
     latitude |-> lat, longitude |-> lon, url |-> url]

Places ==
    { Place("b", KimS, Str(<<>>), NoneNum, NoneNum, NoneStr),
      Place("a", KimS, Str(MainSt), Num(1), Num(2), NoneStr),
      Place("a", KimS, Str(<<>>), NoneNum, NoneNum, NoneStr),
      Place("a", KimSpaced, NoneStr, Num(1), Num(2), NoneStr),
      Place("b", KimS, Str(Blank), NoneNum, NoneNum, NoneStr),
      Place("b", KimS, NoneStr, Num(1), NoneNum, Str(Site)),
      Place("b", KimSpaced, Str(MainStDotted), NoneNum, NoneNum, Str(Site)),
      Place("a", KimS, Str(Blank), Num(3), Num(4), Str(<<>>)),
      Place("a", Lee, NoneStr, NoneNum, NoneNum, Str(Site)),
      Place("b", Lee, Str(MainSt), NoneNum, Num(2), NoneStr) }

UpperSeq == <<"A", "B", "C", "D", "E", "F", "G", "H", "I", "J", "K", "L", "M",
              "N", "O", "P", "Q", "R", "S", "T", "U", "V", "W", "X", "Y", "Z">>
LowerSeq == <<"a", "b", "c", "d", "e", "f", "g", "h", "i", "j", "k", "l", "m",
              "n", "o", "p", "q", "r", "s", "t", "u", "v", "w", "x", "y", "z">>

\* str.lower(), one character
LowerOf == [c \in {UpperSeq[i] : i \in 1..Len(UpperSeq)} |->
               LowerSeq[CHOOSE i \in 1..Len(UpperSeq) : UpperSeq[i] = c]]

ToLower(c) == IF c \in DOMAIN LowerOf THEN LowerOf[c] ELSE c

SlugChars == {LowerSeq[i] : i \in 1..Len(LowerSeq)} \cup Digits \cup {"-"}

\* slugify: runs of "-" become one "-"
RECURSIVE CollapseDashes(_)
CollapseDashes(s) ==
    IF Len(s) <= 1 THEN s
    ELSE IF s[1] = "-" /\ s[2] = "-" THEN CollapseDashes(Tail(s))
    ELSE <<s[1]>> \o CollapseDashes(Tail(s))

RECURSIVE LStripDashes(_)
LStripDashes(s) == IF s # <<>> /\ Head(s) = "-" THEN LStripDashes(Tail(s)) ELSE s

\* slugify(text, lowercase=True) of python-slugify on ASCII text: lowercase, every
\* character outside [-a-z0-9] (quotes and blanks included) becomes "-", runs of
\* "-" collapse, leading and trailing "-" are stripped.
SlugOf(t) ==
    LET low == [i \in 1..Len(t) |-> ToLower(t[i])]
        sep == [i \in 1..Len(t) |-> IF low[i] \in SlugChars THEN low[i] ELSE "-"]
        one == CollapseDashes(sep)
    IN  Reverse(LStripDashes(Reverse(LStripDashes(one))))

\* The slugs of the names and addresses of Places, computed once.
SlugTable ==
    [t \in {p.name : p \in Places} \cup {p.address.text : p \in Places} |-> SlugOf(t)]

slugify(t) == IF t \in DOMAIN SlugTable THEN SlugTable[t] ELSE SlugOf(t)

\* "address or ''"
OrEmpty(s) == IF Truthy(s) THEN s.text ELSE <<>>

\* normalize_key(name, address): f"{n}__{a}" if a else n
normalize_key(name, address) ==
    LET n == slugify(name)
        a == slugify(OrEmpty(address))
    IN  IF a # <<>> THEN n \o <<"_", "_">> \o a ELSE n

KeyOf(p) == normalize_key(p.name, p.address)

HasCoords(p) == p.latitude.present /\ p.longitude.present

\* a mutant: the URL preference is left out
BetterIgnoresUrl(cur, p) ==
    LET b1 == IF ~Truthy(cur.address) /\ Truthy(p.address) THEN p ELSE cur
    IN  IF (~b1.latitude.present \/ ~b1.longitude.present) /\ HasCoords(p) THEN p ELSE b1

\* merge_places, the choice between the record held for a key and an incoming one
Better(cur, p) ==
    LET b1 == IF ~Truthy(cur.address) /\ Truthy(p.address) THEN p ELSE cur
        b2 == IF (~b1.latitude.present \/ ~b1.longitude.present) /\ HasCoords(p)
              THEN p ELSE b1
        b3 == IF ~Truthy(b2.url) /\ Truthy(p.url) THEN p ELSE b2
    IN  b3

\* "key in merged": the position of the key in the dict (insertion order), or 0
KeyIndex(merged, key) ==
    IF \E i \in 1..Len(merged) : merged[i].key = key
    THEN CHOOSE i \in 1..Len(merged) : merged[i].key = key
    ELSE 0

\* a mutant: every record is kept, as in a list
MergeOneNoDedup(merged, p) == Append(merged, [key |-> KeyOf(p), val |-> p])

\* merge_places, the body of the inner loop for one record p
MergeOne(merged, p) ==
    LET key == normalize_key(p.name, p.address)
        i == KeyIndex(merged, key)
    IN  IF i = 0
        THEN Append(merged, [key |-> key, val |-> p])
        ELSE [merged EXCEPT ![i].val = Better(merged[i].val, p)]

RECURSIVE MergeFold(_, _)
MergeFold(merged, ps) ==
    IF ps = <<>> THEN merged ELSE MergeFold(MergeOne(merged, Head(ps)), Tail(ps))

\* The else branch of merge_places as it ran: for every record folded into a held
\* one, the held record, the incoming record and the record stored afterwards.
RECURSIVE FoldLog(_, _)
FoldLog(merged, ps) ==
    IF ps = <<>> THEN <<>>
    ELSE LET p == Head(ps)
             i == KeyIndex(merged, normalize_key(p.name, p.address))
             after == MergeOne(merged, p)
         IN  (IF i = 0 THEN <<>>
              ELSE <<[cur |-> merged[i].val, p |-> p, better |-> after[i].val]>>)
             \o FoldLog(after, Tail(ps))

\* merge_places(*lists): list(merged.values())
merge_places(ls) ==
    LET merged == MergeFold(<<>>, Flatten(ls))
    IN  [i \in 1..Len(merged) |-> merged[i].val]

\* Two argument lists, given by their concatenation f and the length of the first.
SplitAt(f, cut) ==
    <<[i \in 1..cut |-> f[i]], [i \in 1..(Len(f) - cut) |-> f[cut + i]]>>

\* result = merge_places(*lists)
Merge ==
    /\ mpc = "idle"
    /\ result' = merge_places(lists)
    /\ folds' = FoldLog(<<>>, Flatten(lists))
    /\ mpc' = "merged"
    /\ UNCHANGED <<lists, result_rev, again, twice, fetch_vars, enrich_vars, agent_vars>>

\* the same lists in the opposite order
MergeReversed ==
    /\ mpc = "merged"
    /\ result_rev' = merge_places(Reverse(lists))
    /\ mpc' = "reversed"
    /\ UNCHANGED <<lists, result, again, twice, folds, fetch_vars, enrich_vars, agent_vars>>

\* merge_places(result)
MergeAgain ==
    /\ mpc = "reversed"
    /\ again' = merge_places(<<result>>)
    /\ mpc' = "again"
    /\ UNCHANGED <<lists, result, result_rev, twice, folds, fetch_vars, enrich_vars, agent_vars>>

\* merge_places(result, result)
MergeTwice ==
    /\ mpc = "again"
    /\ twice' = merge_places(<<result, result>>)
    /\ mpc' = "twice"
    /\ UNCHANGED <<lists, result, result_rev, again, folds, fetch_vars, enrich_vars, agent_vars>>

InitMerge ==
    /\ impl = "build" /\ max_pages = 1 /\ max_attempts = DefaultMaxAttempts
    /\ FetchStart
    /\ \E k \in 0..MaxPlaces : \E f \in [1..k -> Places] : \E cut \in 0..k :
          lists = SplitAt(f, cut)
    /\ result = <<>> /\ result_rev = <<>> /\ again = <<>> /\ twice = <<>>
    /\ folds = <<>> /\ mpc = "idle"
    /\ EnrichIdle
    /\ AgentIdle

NextMerge == Merge \/ MergeReversed \/ MergeAgain \/ MergeTwice

SpecMerge == InitMerge /\ [][NextMerge]_vars

----
\* Building, enriching and writing the places (build_map_list.py).

ShortAddrLimit == 40
QueryLimit == 80

Letters == {LowerSeq[i] : i \in 1..Len(LowerSeq)} \cup {UpperSeq[i] : i \in 1..Len(UpperSeq)}
WordChars == Letters \cup Digits \cup {"_"}

RStrip(s) == Reverse(LStrip(Reverse(s)))
Take(s, n) == SubSeq(s, 1, Min(n, Len(s)))
Lower(s) == [i \in 1..Len(s) |-> ToLower(s[i])]

\* "a in b" of two strings
IsSubstr(a, b) == \E i \in 0..(Len(b) - Len(a)) : SubSeq(b, i + 1, i + Len(a)) = a

\* re.sub(r"\s+", " ", a)
RECURSIVE CollapseSpaces(_)
CollapseSpaces(s) ==
    IF Len(s) <= 1 THEN s
    ELSE IF s[1] = " " /\ s[2] = " " THEN CollapseSpaces(Tail(s))
    ELSE <<s[1]>> \o CollapseSpaces(Tail(s))

\* A value of the "gps" object of an item: absent or null, a JSON number, a string.
GpsNull == [kind |-> "null", v |-> 0]
GpsNumber(n) == [kind |-> "number", v |-> n]
GpsString(n) == [kind |-> "string", v |-> n]

BluerItem(nameKR, engAddr, website, lat, lon) ==
    [nameKR |-> nameKR, engAddr |-> engAddr, website |-> website,
     latitude |-> lat, longitude |-> lon]

Unknown == <<"U", "n", "k", "n", "o", "w", "n">>
MapoGu == <<"M", "a", "p", "o", "-", "g", "u">>
GuAddr == <<"5", ",", " ">> \o MapoGu \o <<" ", "(", "S", ")">>
Comma == <<",">>

\* The items the places are built from.
BluerItems ==
    { BluerItem(Str(KimS), Str(MainSt), NoneStr, GpsNumber(37), GpsNumber(127)),
      BluerItem(Str(Lee), Str(GuAddr), Str(Site), GpsNull, GpsNull),
      BluerItem(NoneStr, Str(Comma), Str(Blank), GpsString(37), GpsNumber(127)),
      BluerItem(Str(Blank), NoneStr, NoneStr, GpsNumber(38), GpsNumber(128)) }

\* float(x) if isinstance(x, (int, float)) else None
FloatOrNone(g) == IF g.kind = "number" THEN Num(g.v) ELSE NoneNum

\* (x or "").strip() or None
StripOrNone(s) ==
    LET t == Strip(OrEmpty(s)) IN IF t # <<>> THEN Str(t) ELSE NoneStr

bluer_item_to_place(item) ==
    [source |-> "blueribbon",
     name |-> IF Truthy(item.nameKR) THEN item.nameKR.text ELSE Unknown,
     address |-> IF Truthy(item.engAddr) THEN item.engAddr ELSE NoneStr,
     latitude |-> FloatOrNone(item.latitude),
     longitude |-> FloatOrNone(item.longitude),
     url |-> StripOrNone(item.website),
     kakao_id |-> NoneStr,
     kakao_url |-> NoneStr]

\* a mutant: a feature as soon as one of the two coordinates is there
HasPointEither(p) == p.latitude.present \/ p.longitude.present

\* write_geojson: "p.latitude is not None and p.longitude is not None"
HasPoint(p) == p.latitude.present /\ p.longitude.present

\* write_geojson: "coordinates": [p.longitude, p.latitude]
Coordinates(p) == <<p.longitude, p.latitude>>

\* One feature; pos is the position of its place in the list (not written).
Feature(p, i) ==
    [pos |-> i,
     coordinates |-> Coordinates(p),
     properties |-> [name |-> p.name, source |-> p.source, url |-> p.url,
                     address |-> p.address, kakao_id |-> p.kakao_id,
                     kakao_url |-> p.kakao_url]]

write_geojson(ps) ==
    LET F[i \in 0..Len(ps)] ==
            IF i = 0 THEN <<>>
            ELSE IF HasPoint(ps[i]) THEN Append(F[i - 1], Feature(ps[i], i))
            ELSE F[i - 1]
    IN  F[Len(ps)]

\* kakao_rest_key: os.getenv("KAKAO_REST_API_KEY") or None
kakao_rest_key(env) == IF Truthy(env) THEN env ELSE NoneStr

\* a mutant: the check for the key is dropped
KeyCheckDropped(env) == TRUE

\* enrich_with_kakao: "key = kakao_rest_key()", the negation of "if not key"
HasKey(env) == Truthy(kakao_rest_key(env))

\* _extract_gu: re.search(r"([A-Za-z]+-gu)\b", addr), the leftmost match
\* (the search for a Korean district name is left out: the addresses are ASCII)
_extract_gu(addr) ==
    IF ~Truthy(addr) THEN NoneStr
    ELSE LET s == addr.text
             EndsAt(i) == CHOOSE k \in i..Len(s) :
                              /\ \A m \in i..k : s[m] \in Letters
                              /\ (k = Len(s) \/ s[k + 1] \notin Letters)
             Matches(i) ==
                 /\ s[i] \in Letters
                 /\ LET k == EndsAt(i)
                    IN  /\ k + 3 <= Len(s)
                        /\ s[k + 1] = "-" /\ s[k + 2] = "g" /\ s[k + 3] = "u"
                        /\ (k + 3 = Len(s) \/ s[k + 4] \notin WordChars)
             starts == {i \in 1..Len(s) : Matches(i)}
         IN  IF starts = {} THEN NoneStr
             ELSE LET i == CHOOSE j \in starts : \A o \in starts : j <= o
                  IN  Str(SubSeq(s, i, EndsAt(i) + 3))

\* _short_addr: runs of "," "(" ")" become a blank, blanks collapse, strip,
\* a[:limit].rstrip()
_short_addr(addr) ==
    IF ~Truthy(addr) THEN NoneStr
    ELSE LET s == addr.text
             blanked == [i \in 1..Len(s) |-> IF s[i] \in {",", "(", ")"} THEN " " ELSE s[i]]
             a == Strip(CollapseSpaces(blanked))
         IN  IF a # <<>> THEN Str(RStrip(Take(a, ShortAddrLimit))) ELSE NoneStr

\* enrich_with_kakao: the candidate queries of a place, kind 1 the name, 2 the
\* name and the district, 3 the name and the short address
CandidatesOf(p_name, p_address) ==
    LET name == Strip(p_name)
        gu == _extract_gu(p_address)
        addr_short == _short_addr(p_address)
    IN  (IF name # <<>> THEN <<[kind |-> 1, q |-> name]>> ELSE <<>>)
        \o (IF name # <<>> /\ Truthy(gu)
            THEN <<[kind |-> 2, q |-> name \o <<" ">> \o gu.text]>> ELSE <<>>)
        \o (IF name # <<>> /\ Truthy(addr_short)
            THEN <<[kind |-> 3, q |-> name \o <<" ">> \o addr_short.text]>> ELSE <<>>)

\* The candidate queries of the places that can be built, computed once.
CandidateTable ==
    [na \in {<<bluer_item_to_place(it).name, bluer_item_to_place(it).address>> : it \in BluerItems}
        |-> CandidatesOf(na[1], na[2])]

Candidates(p) == CandidateTable[<<p.name, p.address>>]

\* kakao_local_keyword_search: the query sent, strip and q[:80].rstrip()
SentQuery(query) ==
    LET q == Strip(query)
    IN  IF Len(q) > QueryLimit THEN RStrip(Take(q, QueryLimit)) ELSE q

\* A document of the keyword search: a JSON object with some of these members.
KakaoDoc(id, place_url, place_name, phone) ==
    [id |-> id, place_url |-> place_url, place_name |-> place_name, phone |-> phone]

\* bool(d) of a document
DictTruthy(d) ==
    d.id.present \/ d.place_url.present \/ d.place_name.present \/ d.phone.present

PlaceUrl == <<"p">>
KakaoId == <<"1", "1">>
Phone == <<"0", "2">>

\* The "documents" lists the search answers with.
KakaoDocLists ==
    { <<>>,
      <<KakaoDoc(NoneStr, NoneStr, Str(Lee), NoneStr),
        KakaoDoc(Str(KakaoId), Str(PlaceUrl), Str(KimS), Str(Phone))>>,
      <<KakaoDoc(NoneStr, NoneStr, Str(Unknown), NoneStr)>> }

\* choose_best_kakao_doc: score(d); the documents carry no address, so the
\* address terms add nothing
Score(d, name) ==
    LET n == Lower(Strip(name))
        pn == Lower(Strip(OrEmpty(d.place_name)))
    IN  (IF pn = n THEN 50
         ELSE IF n # <<>> /\ pn # <<>> /\ (IsSubstr(n, pn) \/ IsSubstr(pn, n)) THEN 25
         ELSE 0)
        + (IF Strip(OrEmpty(d.phone)) # <<>> THEN 2 ELSE 0)

\* choose_best_kakao_doc: max(docs, key=score), the first of the best; None if
\* there is no document
choose_best_kakao_doc(docs, name) ==
    IF docs = <<>> THEN [present |-> FALSE, doc |-> KakaoDoc(NoneStr, NoneStr, NoneStr, NoneStr)]
    ELSE LET i == CHOOSE j \in 1..Len(docs) :
                      /\ \A o \in 1..Len(docs) : Score(docs[o], name) <= Score(docs[j], name)
                      /\ \A o \in 1..(j - 1) : Score(docs[o], name) < Score(docs[j], name)
         IN  [present |-> TRUE, doc |-> docs[i]]

\* a mutant: the search goes on after a document was chosen
BreakDropped(best) == FALSE

\* "if best_doc:"
BestTruthy(best) == best.present /\ DictTruthy(best.doc)

\* str(best_doc.get(k) or "") or None
StrOrNone(s) == IF Truthy(s) THEN s ELSE NoneStr

\* a mutant: the place's own url is overwritten with the document's
EnrichedOverwritesUrl(p, doc) ==
    [p EXCEPT !.kakao_id = StrOrNone(doc.id), !.kakao_url = StrOrNone(doc.place_url),
              !.url = StrOrNone(doc.place_url)]

\* Place(**d) with d["kakao_id"] and d["kakao_url"] taken from the document
Enriched(p, doc) ==
    [p EXCEPT !.kakao_id = StrOrNone(doc.id), !.kakao_url = StrOrNone(doc.place_url)]

\* "if p.kakao_id or p.kakao_url: out.append(p); continue"
AlreadyEnriched(p) == Truthy(p.kakao_id) \/ Truthy(p.kakao_url)

\* The loop over places up to the next keyword search: the places that are
\* passed on without a search.
RECURSIVE SkipTo(_, _, _)
SkipTo(ps, o, i) ==
    IF i <= Len(ps) /\ (AlreadyEnriched(ps[i]) \/ Candidates(ps[i]) = <<>>)
    THEN SkipTo(ps, Append(o, ps[i]), i + 1)
    ELSE [out |-> o, idx |-> i]

NoLog == [pos |-> 0, evs |-> <<>>]
Sleep(s) == [ev |-> "sleep", kind |-> 0, q |-> <<>>, s |-> s, nonempty |-> FALSE]
Get(c, nonempty) ==
    [ev |-> "get", kind |-> c.kind, q |-> SentQuery(c.q), s |-> "", nonempty |-> nonempty]

\* The values of KAKAO_REST_API_KEY: not set, empty, a key.
ApiKeys == {NoneStr, Str(<<>>), Str(<<"k">>)}

\* enrich_with_kakao is entered with the list ps: without a key it returns the
\* list, with one it runs up to its first keyword search.
EnterEnrich(ps) ==
    /\ places' = ps
    /\ queried' = {}
    /\ cand' = 0
    /\ IF ~HasKey(api_key)
       THEN /\ out' = ps
            /\ idx' = 0
            /\ epc' = "returned"
       ELSE LET s == SkipTo(ps, <<>>, 1)
            IN  /\ out' = s.out
                /\ idx' = s.idx
                /\ epc' = IF s.idx > Len(ps) THEN "returned" ELSE "enrich"

\* places = [bluer_item_to_place(it) for it in filtered], merge_places
Build ==
    /\ epc = "build"
    /\ places' = merge_places(<<[i \in 1..Len(bluer_items) |-> bluer_item_to_place(bluer_items[i])]>>)
    /\ epc' = "built"
    /\ UNCHANGED <<api_key, bluer_items, out, idx, cand, elog, queried, held, run,
                   eerr, features, fetch_vars, merge_vars, agent_vars>>

\* combined = enrich_with_kakao(combined)
Enrich ==
    /\ epc = "built"
    /\ EnterEnrich(places)
    /\ run' = "first"
    /\ UNCHANGED <<api_key, bluer_items, elog, held, eerr, features, fetch_vars, merge_vars, agent_vars>>

\* The log of the place at idx after the events evs.
Logged(evs) ==
    IF cand = 0 THEN [pos |-> idx, evs |-> evs]
    ELSE [pos |-> idx, evs |-> elog.evs \o evs]

\* The record rec is appended for the place at idx and the loop goes on to the
\* next keyword search; hit and tried tell what the first run found out about it.
Finish(rec, hit, tried) ==
    LET s == SkipTo(places, Append(out, rec), idx + 1)
    IN  /\ out' = s.out
        /\ idx' = s.idx
        /\ cand' = 0
        /\ epc' = IF s.idx > Len(places) THEN "returned" ELSE "enrich"
        /\ held' = IF run # "first" THEN held
                   ELSE IF hit THEN [held EXCEPT !.found = @ \cup {idx}]
                   ELSE IF tried THEN [held EXCEPT !.missed = @ \cup {idx}]
                   ELSE held

\* "continue": the next candidate, or the end of the candidates
NextCandidate ==
    IF cand + 1 < Len(Candidates(places[idx]))
    THEN /\ cand' = cand + 1
         /\ UNCHANGED <<out, idx, epc, held>>
    ELSE Finish(places[idx], FALSE, TRUE)

\* kakao_local_keyword_search answers 200 with the documents docs
KakaoDocs(docs) ==
    /\ epc = "enrich"
    /\ LET p == places[idx]
           c == Candidates(p)[cand + 1]
           best_doc == choose_best_kakao_doc(docs, p.name)
       IN  /\ elog' = Logged(<<Sleep("sleep_s"), Get(c, docs # <<>>)>>)
           /\ queried' = queried \cup {idx}
           /\ IF BestTruthy(best_doc)
              THEN Finish(Enriched(p, best_doc.doc), TRUE, FALSE)
              ELSE NextCandidate
    /\ UNCHANGED <<api_key, bluer_items, places, run, eerr, features, fetch_vars, merge_vars, agent_vars>>

\* raise_for_status raises requests.HTTPError
KakaoHttpError(status) ==
    /\ epc = "enrich"
    /\ LET c == Candidates(places[idx])[cand + 1]
       IN  /\ elog' = Logged(<<Sleep("sleep_s"), Get(c, FALSE)>>
                             \o (IF status = 429 THEN <<Sleep("1.0")>> ELSE <<>>))
           /\ queried' = queried \cup {idx}
           /\ IF status \in {400, 429}
              THEN NextCandidate
              ELSE Finish(places[idx], FALSE, FALSE)
    /\ UNCHANGED <<api_key, bluer_items, places, run, eerr, features, fetch_vars, merge_vars, agent_vars>>

\* s.get raises ConnectionError or Timeout, or r.json() raises on a body that is
\* not JSON: none of them is a requests.HTTPError, so it leaves enrich_with_kakao
KakaoRaises(e) ==
    /\ epc = "enrich"
    /\ LET c == Candidates(places[idx])[cand + 1]
       IN  elog' = Logged(<<Sleep("sleep_s"), Get(c, FALSE)>>)
    /\ queried' = queried \cup {idx}
    /\ eerr' = e
    /\ epc' = "raised"
    /\ UNCHANGED <<api_key, bluer_items, places, out, idx, cand, held, run, features,
                   fetch_vars, merge_vars, agent_vars>>

\* write_geojson(combined, geojson_path)
WriteGeojson ==
    /\ epc = "returned"
    /\ features' = write_geojson(out)
    /\ epc' = "written"
    /\ elog' = NoLog
    /\ UNCHANGED <<api_key, bluer_items, places, out, idx, cand, queried, held,
                   run, eerr, fetch_vars, merge_vars, agent_vars>>

\* A later run: main builds the same places again, or the places of the run
\* before are enriched again.
EnrichLater ==
    /\ epc = "written"
    /\ run = "first"
    /\ \E ps \in {places, out} : EnterEnrich(ps)
    /\ run' = "later"
    /\ UNCHANGED <<api_key, bluer_items, elog, held, eerr, features, fetch_vars, merge_vars, agent_vars>>

KakaoStatuses == {400, 429, 500}
KakaoExceptions == {"ConnectionError", "Timeout", "JSONDecodeError"}

InitEnrich ==
    /\ impl = "build" /\ max_pages = 1 /\ max_attempts = DefaultMaxAttempts
    /\ FetchStart
    /\ MergeIdle
    /\ api_key \in ApiKeys
    /\ \E k \in 0..MaxItems : bluer_items \in [1..k -> BluerItems]
    /\ places = <<>> /\ out = <<>>
    /\ epc = "build" /\ idx = 0 /\ cand = 0 /\ elog = NoLog
    /\ queried = {} /\ held = [found |-> {}, missed |-> {}]
    /\ run = "none" /\ eerr = "None" /\ features = <<>>
    /\ AgentIdle

NextEnrich ==
    \/ Build
    \/ Enrich
    \/ \E docs \in KakaoDocLists : KakaoDocs(docs)
    \/ \E status \in KakaoStatuses : KakaoHttpError(status)
    \/ \E e \in KakaoExceptions : KakaoRaises(e)
    \/ WriteGeojson
    \/ EnrichLater

SpecEnrich == InitEnrich /\ [][NextEnrich]_vars

----
\* discover_restaurants (master_agent.py).

MaxPlacesPerSearch == 45
DiscoverPages == 3

\* The "documents" of one page.
DiscoverDocLists == {<<>>, <<"a">>, <<"b", "c">>}

\* The "meta" member of an answer: absent, without is_end, is_end true or false.
Meta(present, has_is_end, is_end) ==
    [present |-> present, has_is_end |-> has_is_end, is_end |-> is_end]
Metas ==
    {Meta(FALSE, FALSE, FALSE), Meta(TRUE, FALSE, FALSE),
     Meta(TRUE, TRUE, TRUE), Meta(TRUE, TRUE, FALSE)}

\* a mutant: an answer that does not tell counts as "more pages"
IsEndDefaultFalse(meta) == meta.present /\ meta.has_is_end /\ meta.is_end

\* data.get('meta', {}).get('is_end', True)
IsEnd(meta) == IF meta.present /\ meta.has_is_end THEN meta.is_end ELSE TRUE

NoMeta == Meta(FALSE, FALSE, FALSE)

\* A request in the log: the page asked for, how it was answered, the meta of
\* a 200 answer.
DiscoverGet(n, answer, meta) == [ev |-> "get", page |-> n, answer |-> answer, meta |-> meta]

\* "return all_places[:max_results]"
DiscoverReturn(all) ==
    /\ dpc' = "returned"
    /\ dret' = [present |-> TRUE, items |-> Take(all, max_results)]

\* One pass of "for page in range(1, 4)": the request is answered 200 with a
\* JSON object holding documents and meta.
DiscoverOk(docs, meta) ==
    /\ dpc = "loop"
    /\ page' = page + 1
    /\ dlog' = Append(dlog, DiscoverGet(page + 1, "200", meta))
    /\ all_places' = all_places \o docs
    /\ IF IsEnd(meta) \/ page + 1 >= DiscoverPages
       THEN DiscoverReturn(all_places \o docs)
       ELSE UNCHANGED <<dpc, dret>>
    /\ UNCHANGED <<max_results, not_disc>>

\* "else: ... break": a status other than 200
DiscoverHttpError(status) ==
    /\ dpc = "loop"
    /\ page' = page + 1
    /\ dlog' = Append(dlog, DiscoverGet(page + 1, "status", NoMeta))
    /\ DiscoverReturn(all_places)
    /\ UNCHANGED <<max_results, all_places, not_disc>>

\* "except requests.exceptions.RequestException: break"
DiscoverNetworkError ==
    /\ dpc = "loop"
    /\ page' = page + 1
    /\ dlog' = Append(dlog, DiscoverGet(page + 1, "network error", NoMeta))
    /\ DiscoverReturn(all_places)
    /\ UNCHANGED <<max_results, all_places, not_disc>>

\* 200 with JSON of another shape (a list, "documents": null, "meta": null):
\* data.get or all_places.extend raises AttributeError or TypeError, which is
\* not a RequestException and leaves the function
DiscoverBadShape ==
    /\ dpc = "loop"
    /\ page' = page + 1
    /\ dlog' = Append(dlog, DiscoverGet(page + 1, "shape", NoMeta))
    /\ dpc' = "raised"
    /\ UNCHANGED <<max_results, all_places, dret, not_disc>>

DiscoverStatuses == {401, 429, 500}

InitDiscover ==
    /\ impl = "build" /\ max_pages = 1 /\ max_attempts = DefaultMaxAttempts
    /\ FetchStart
    /\ MergeIdle
    /\ EnrichIdle
    /\ max_results \in 0..MaxResults \cup {MaxPlacesPerSearch}
    /\ page = 0 /\ all_places = <<>>
    /\ dpc = "loop" /\ dret = [present |-> FALSE, items |-> <<>>] /\ dlog = <<>>
    /\ CritIdle
    /\ MichIdle
    /\ PipeIdle

NextDiscover ==
    \/ \E docs \in DiscoverDocLists, meta \in Metas : DiscoverOk(docs, meta)
    \/ \E status \in DiscoverStatuses : DiscoverHttpError(status)
    \/ DiscoverNetworkError
    \/ DiscoverBadShape

SpecDiscover == InitDiscover /\ [][NextDiscover]_vars

----
\* critic_agent.py: evaluate_restaurant, the analyst call and the critic call.

\* A member of a JSON object that may be absent.
NoMember == [present |-> FALSE, b |-> FALSE, s |-> ""]
BoolMember(b) == [present |-> TRUE, b |-> b, s |-> ""]
StrMember(s) == [present |-> TRUE, b |-> FALSE, s |-> s]

\* What a generate_content call does: it raises, or it returns text that
\* json.loads reads as an object, a list (empty, of an object, of a number),
\* a number, null, or not at all.
Shapes == {"object", "empty list", "list of object", "list of number", "number", "null",
           "not json"}
Answer(how, shape, serves, facts, score, award) ==
    [how |-> how, shape |-> shape, serves_target_food |-> serves,
     extracted_facts_ko |-> facts, score |-> score, award_level |-> award]
Raises == Answer("raises", "not json", NoMember, NoMember, 0, "")

\* The analyst is told to answer {"serves_target_food": (boolean),
\* "sponsored_ratio": ..., "extracted_facts_ko": ...}.
AnalystAnswers ==
    {Raises}
    \cup {Answer("returns", sh, NoMember, NoMember, 0, "") :
            sh \in Shapes \ {"object", "list of object"}}
    \cup {Answer("returns", sh, serves, facts, 0, "") :
            sh \in {"object", "list of object"},
            serves \in {NoMember, BoolMember(TRUE), BoolMember(FALSE)},
            facts \in {NoMember, StrMember("facts")}}

\* The critic is told to answer {"score": (integer 0-100), "award_level": ...}.
CriticScores == {0, 79, 95}
AwardLevel(score) == IF score >= 95 THEN "3 Neon Hearts" ELSE "None"
CriticAnswers ==
    {Raises}
    \cup {Answer("returns", sh, NoMember, NoMember, 0, "") :
            sh \in Shapes \ {"object", "list of object"}}
    \cup {Answer("returns", sh, NoMember, NoMember, score, AwardLevel(score)) :
            sh \in {"object", "list of object"}, score \in CriticScores}

\* "if isinstance(data, list): data = data[0] if len(data) > 0 else {}", as the
\* shape of data afterwards.
Unwrapped(shape) ==
    CASE shape = "empty list" -> "object"
      [] shape = "list of object" -> "object"
      [] shape = "list of number" -> "number"
      [] OTHER -> shape

\* The members of data afterwards: the empty list gives {}.
MemberOf(a, member) == IF a.shape = "empty list" THEN NoMember ELSE member

\* The try block raises: the call, json.loads, or .get on a value that is no dict.
AnalystFails(a) ==
    a.how = "raises" \/ Unwrapped(a.shape) \in {"not json", "number", "null"}

\* a mutant: an answer without the member goes on to the critic
ServesDefaultTrue(a) ==
    LET serves == MemberOf(a, a.serves_target_food)
    IN  ~serves.present \/ serves.b

\* analyst_data.get("serves_target_food", False)
Serves(a) ==
    LET serves == MemberOf(a, a.serves_target_food)
    IN  serves.present /\ serves.b

\* analyst_data.get("extracted_facts_ko", "")
FactsOf(a) ==
    LET facts == MemberOf(a, a.extracted_facts_ko)
    IN  IF facts.present THEN facts.s ELSE ""

\* {"score": 0, "award_level": "None", "justification": ...}
Rejection == [present |-> TRUE, kind |-> "object", score |-> 0, award_level |-> "None"]

\* The call in the log.
ModelCall(who, a) == [who |-> who, answer |-> a]

\* PHASE 1: the analyst call and what follows from its answer.
Analyst(a) ==
    /\ cpc = "analyst"
    /\ clog' = Append(clog, ModelCall("analyst", a))
    /\ IF AnalystFails(a)
       THEN cpc' = "returned" /\ evaluation' = NoEvaluation
            /\ UNCHANGED extracted_facts
       ELSE IF ~Serves(a)
       THEN cpc' = "returned" /\ evaluation' = Rejection
            /\ UNCHANGED extracted_facts
       ELSE cpc' = "critic" /\ extracted_facts' = FactsOf(a)
            /\ UNCHANGED evaluation
    /\ UNCHANGED <<image_bytes, not_crit>>

\* The critic's try block raises: the call or json.loads.
CriticFails(a) == a.how = "raises" \/ a.shape = "not json"

\* "return critic_data": the answer, unwrapped if it is a list; JSON null is None.
CriticData(a) ==
    LET shape == Unwrapped(a.shape)
        has == shape = "object" /\ a.shape # "empty list"
    IN  IF shape = "null" THEN NoEvaluation
        ELSE [present |-> TRUE, kind |-> shape,
              score |-> IF has THEN a.score ELSE 0,
              award_level |-> IF has THEN a.award_level ELSE ""]

\* PHASE 2: the critic call.
Critic(a) ==
    /\ cpc = "critic"
    /\ clog' = Append(clog, ModelCall("critic", a))
    /\ cpc' = "returned"
    /\ evaluation' = IF CriticFails(a) THEN NoEvaluation ELSE CriticData(a)
    /\ UNCHANGED <<image_bytes, extracted_facts, not_crit>>

InitCritic ==
    /\ impl = "build" /\ max_pages = 1 /\ max_attempts = DefaultMaxAttempts
    /\ FetchStart
    /\ MergeIdle
    /\ EnrichIdle
    /\ DiscIdle
    /\ image_bytes \in BOOLEAN
    /\ extracted_facts = "" /\ cpc = "analyst"
    /\ evaluation = NoEvaluation /\ clog = <<>>
    /\ MichIdle
    /\ PipeIdle

NextCritic ==
    \/ \E a \in AnalystAnswers : Analyst(a)
    \/ \E a \in CriticAnswers : Critic(a)

SpecCritic == InitCritic /\ [][NextCritic]_vars

----
\* build_map_list.py: michelin_list_page_urls. A detail URL is a number (URLs
\* sort as their numbers do); a link of a list page is written relative
\* ("/us/en/.../restaurant/n"), absolute (MICHELIN_BASE in front) or leads
\* elsewhere.

MichelinPageLimit == 50

Href(kind, n) == [kind |-> kind, n |-> n]

\* "/restaurant/" in href
IsRestaurantLink(href) == href.kind \in {"relative", "absolute"}

\* urljoin(MICHELIN_BASE, href): both spellings give the same URL
UrlJoin(href) == href.n

\* found, for the links of one list page
Found(links) == {UrlJoin(href) : href \in {h \in links : IsRestaurantLink(h)}}

\* sorted(found)
RECURSIVE Sorted(_)
Sorted(S) ==
    IF S = {} THEN <<>>
    ELSE LET least == CHOOSE x \in S : \A y \in S : x <= y
         IN  <<least>> \o Sorted(S \ {least})

\* a mutant: every candidate is appended
RECURSIVE AppendAll(_, _)
AppendAll(us, sorted) ==
    IF sorted = <<>> THEN us ELSE AppendAll(Append(us, Head(sorted)), Tail(sorted))

\* "for u in sorted(found): if u not in urls: urls.append(u)"
RECURSIVE AppendNew(_, _)
AppendNew(us, sorted) ==
    IF sorted = <<>> THEN us
    ELSE LET u == Head(sorted)
         IN  AppendNew(IF \E k \in 1..Len(us) : us[k] = u THEN us ELSE Append(us, u),
                       Tail(sorted))

\* The URLs a list page can link to: one already collected, one that sorts
\* after all collected, and (on the first pages) one that sorts before them
\* and a second new one.
Collected(us) == {us[k] : k \in 1..Len(us)}
Newest(us) == IF us = <<>> THEN 1 ELSE 1 + (CHOOSE x \in Collected(us) : \A y \in Collected(us) : y <= x)
Lowest(us) == IF us = <<>> THEN 0 ELSE (CHOOSE x \in Collected(us) : \A y \in Collected(us) : x <= y) - 1
LinkSets(us, pg) ==
    LET new == Newest(us)
        low == Lowest(us)
        old == IF us = <<>> THEN {} ELSE {{Href("relative", us[1])}}
    IN  {{}, {Href("other", 0)},
         {Href("relative", new)}, {Href("absolute", new)},
         {Href("relative", new), Href("absolute", new), Href("other", 0)}}
        \cup old
        \cup {o \cup {Href("absolute", new)} : o \in old}
        \cup (IF pg <= MaxPages
              THEN {{Href("relative", low)}, {Href("relative", new + 1), Href("relative", low)}}
              ELSE {})

\* get_html(..., allow_404=True) answers None
ListPage404 ==
    /\ lpc = "loop"
    /\ list_gets' = list_gets + 1
    /\ lpc' = "returned" /\ stopped' = "404"
    /\ UNCHANGED <<list_page, urls, not_mich>>

\* get_html raises: r.raise_for_status() on another error status, or the
\* request itself
ListPageRaises ==
    /\ lpc = "loop"
    /\ list_gets' = list_gets + 1
    /\ lpc' = "raised" /\ stopped' = "error"
    /\ UNCHANGED <<list_page, urls, not_mich>>

\* One pass of "while True" on a list page that was delivered.
ListPageHtml(links) ==
    /\ lpc = "loop"
    /\ list_gets' = list_gets + 1
    /\ LET found == Found(links)
           after == AppendNew(urls, Sorted(found))
       IN  IF found = {}
           THEN lpc' = "returned" /\ stopped' = "no links"
                /\ UNCHANGED <<list_page, urls>>
           ELSE /\ urls' = after
                /\ IF Len(after) = Len(urls)
                   THEN lpc' = "returned" /\ stopped' = "no new"
                        /\ UNCHANGED list_page
                   ELSE /\ list_page' = list_page + 1
                        /\ IF list_page + 1 > MichelinPageLimit
                           THEN lpc' = "returned" /\ stopped' = "limit"
                           ELSE UNCHANGED <<lpc, stopped>>
    /\ UNCHANGED not_mich

InitMichelin ==
    /\ impl = "build" /\ max_pages = 1 /\ max_attempts = DefaultMaxAttempts
    /\ FetchStart
    /\ MergeIdle
    /\ EnrichIdle
    /\ DiscIdle
    /\ CritIdle
    /\ list_page = 1 /\ urls = <<>> /\ lpc = "loop" /\ list_gets = 0 /\ stopped = ""
    /\ PipeIdle

NextMichelin ==
    \/ ListPage404
    \/ ListPageRaises
    \/ \E links \in LinkSets(urls, list_page) : ListPageHtml(links)

\* get_html is given timeout=30: every request is answered or fails, so the
\* loop always takes its next step.
SpecMichelin == InitMichelin /\ [][NextMichelin]_vars /\ WF_vars(NextMichelin)

----
\* master_agent.py: run_massive_pipeline over the review-queue CSV, run after
\* run, each run interrupted at any point or swept to its end.

\* The restaurants Kakao can come up with, by place_name.
PlaceNames == {"A", "B"}

\* A line of the CSV: the header line or the row of a restaurant.
HeaderLine == [header |-> TRUE, name |-> ""]
Row(name) == [header |-> FALSE, name |-> name]

\* The rows of the file that carry this restaurant name.
RowsOf(name) == {k \in 1..Len(csv_lines) : csv_lines[k] = Row(name)}

\* load_existing_restaurants: csv.DictReader takes the first line for the
\* field names, whatever it holds; row.get("Restaurant Name") is None when no
\* field has that name.
load_existing_restaurants ==
    IF ~csv_exists \/ csv_lines = <<>> THEN {}
    ELSE {IF Head(csv_lines).header
          THEN [present |-> TRUE, text |-> csv_lines[k].name]
          ELSE [present |-> FALSE, text |-> ""] : k \in 2..Len(csv_lines)}

\* append_to_csv: the header is written when the file did not exist
append_to_csv(name) ==
    /\ csv_lines' = IF csv_exists THEN Append(csv_lines, Row(name))
                    ELSE <<HeaderLine, Row(name)>>
    /\ csv_exists' = TRUE

\* The step is taken for restaurant_name; it is noted when that restaurant has
\* a row in the file.
Step(step) ==
    redone' = IF RowsOf(restaurant_name) # {}
              THEN redone \cup {[name |-> restaurant_name, step |-> step]}
              ELSE redone

\* "seen_places = load_existing_restaurants()"
StartRun ==
    /\ ppc \in {"start", "ended"}
    /\ runs < MaxRuns
    /\ runs' = runs + 1
    /\ seen_places' = load_existing_restaurants
    /\ ppc' = "place" /\ fate' = "" /\ restaurant_name' = ""
    /\ UNCHANGED <<csv_exists, csv_lines, redone, not_pipe>>

\* "if not is_strong_hit(...): continue"
Bounce(name) ==
    /\ ppc = "place"
    /\ restaurant_name' = name /\ fate' = "bounced"
    /\ UNCHANGED <<csv_exists, csv_lines, seen_places, ppc, runs, redone, not_pipe>>

\* "if restaurant_name in seen_places: continue"
Skip(name) ==
    /\ ppc = "place"
    /\ [present |-> TRUE, text |-> name] \in seen_places
    /\ restaurant_name' = name /\ fate' = "skipped"
    /\ UNCHANGED <<csv_exists, csv_lines, seen_places, ppc, runs, redone, not_pipe>>

\* "seen_places.add(restaurant_name)"
Investigate(name) ==
    /\ ppc = "place"
    /\ [present |-> TRUE, text |-> name] \notin seen_places
    /\ seen_places' = seen_places \cup {[present |-> TRUE, text |-> name]}
    /\ restaurant_name' = name /\ fate' = "" /\ ppc' = "search"
    /\ UNCHANGED <<csv_exists, csv_lines, runs, redone, not_pipe>>

\* search_naver_blogs and the fast-pass filter
SearchBlogs(found) ==
    /\ ppc = "search"
    /\ Step("searched")
    /\ IF found = "passed" THEN ppc' = "scrape" /\ UNCHANGED fate
       ELSE ppc' = "place" /\ fate' = found
    /\ UNCHANGED <<csv_exists, csv_lines, seen_places, restaurant_name, runs, not_pipe>>

\* scrape_naver_blog_text for every blog; "if not scraped_texts: continue"
ScrapeBlogs(any_text) ==
    /\ ppc = "scrape"
    /\ Step("scraped")
    /\ IF any_text THEN ppc' = "evaluate" /\ UNCHANGED fate
       ELSE ppc' = "place" /\ fate' = "no texts"
    /\ UNCHANGED <<csv_exists, csv_lines, seen_places, restaurant_name, runs, not_pipe>>

\* What evaluate_restaurant returns: None, the rejection, or the critic's data.
Evaluations ==
    {NoEvaluation, Rejection} \cup {CriticData(a) : a \in {c \in CriticAnswers : ~CriticFails(c)}}

\* "if evaluation:" ({} is false; the number of a one-number list is taken to
\* be other than 0)
EvaluationTruthy(e) == e.present /\ (e.kind = "object" => e.award_level # "")

\* evaluate_restaurant and the live save; evaluation.get raises on a number
Evaluate(e) ==
    /\ ppc = "evaluate"
    /\ Step("evaluated")
    /\ IF ~EvaluationTruthy(e)
       THEN ppc' = "place" /\ fate' = "not saved"
            /\ UNCHANGED <<csv_exists, csv_lines>>
       ELSE IF e.kind # "object"
       THEN ppc' = "ended" /\ fate' = "raised"
            /\ UNCHANGED <<csv_exists, csv_lines>>
       ELSE ppc' = "place" /\ fate' = "saved"
            /\ append_to_csv(restaurant_name)
    /\ UNCHANGED <<seen_places, restaurant_name, runs, not_pipe>>

\* The process is stopped, between any two steps.
Interrupt ==
    /\ ppc \in {"place", "search", "scrape", "evaluate"}
    /\ ppc' = "ended" /\ fate' = "interrupted"
    /\ UNCHANGED <<csv_exists, csv_lines, seen_places, restaurant_name, runs, redone,
                   not_pipe>>

\* The loops are through.
SweepComplete ==
    /\ ppc = "place"
    /\ ppc' = "ended" /\ fate' = "complete"
    /\ UNCHANGED <<csv_exists, csv_lines, seen_places, restaurant_name, runs, redone,
                   not_pipe>>

\* The file before the first run: absent, empty, the header alone, or the
\* header and one row.
InitPipeline ==
    /\ impl = "build" /\ max_pages = 1 /\ max_attempts = DefaultMaxAttempts
    /\ FetchStart
    /\ MergeIdle
    /\ EnrichIdle
    /\ DiscIdle
    /\ CritIdle
    /\ MichIdle
    /\ \E file \in {[e |-> FALSE, l |-> <<>>], [e |-> TRUE, l |-> <<>>],
                     [e |-> TRUE, l |-> <<HeaderLine>>],
                     [e |-> TRUE, l |-> <<HeaderLine, Row("A")>>]} :
          csv_exists = file.e /\ csv_lines = file.l
    /\ seen_places = {} /\ ppc = "start" /\ restaurant_name = ""
    /\ runs = 0 /\ fate = "" /\ redone = {}

NextPipeline ==
    \/ StartRun
    \/ \E name \in PlaceNames : Bounce(name)
    \/ \E name \in PlaceNames : Skip(name)
    \/ \E name \in PlaceNames : Investigate(name)
    \/ \E found \in {"no blogs", "fast pass failed", "passed"} : SearchBlogs(found)
    \/ \E any_text \in BOOLEAN : ScrapeBlogs(any_text)
    \/ \E e \in Evaluations : Evaluate(e)
    \/ Interrupt
    \/ SweepComplete

SpecPipeline == InitPipeline /\ [][NextPipeline]_vars

----
\* The pages fetched so far, as hal_extract_items reads them.
PageItems == [i \in 1..Len(fetched) |-> HalItems(fetched[i])]
LastPage == fetched[Len(fetched)]

\* A GET has been issued for a page after the first.
NextPageRequested == page_num >= 2 /\ attempt >= 1

\* C1: for any sequence of server responses, one page costs at most max_attempts
\* GET requests in bluer_get_json and at most 6 in collect_restaurants_hal, so
\* the rate-limited answers that were retried never exceed the cap either.
C1_AttemptCap ==
    LET cap == IF impl = "build" THEN max_attempts ELSE ProbeMaxAttempts
    IN  /\ call.gets <= cap
        /\ call.rate_limited <= cap
        /\ attempt <= cap

\* C1 witness: bluer_get_json has used all 10 attempts of the default cap.
C1_Witness ==
    /\ impl = "build" /\ max_attempts = DefaultMaxAttempts
    /\ call.gets = DefaultMaxAttempts /\ call.rate_limited = DefaultMaxAttempts
    /\ pc = "raised"

\* C2: on the exponential path of bluer_get_json the wait of an attempt is never
\* smaller than the wait of the attempt before it, whatever the jitter draws.
C2_WaitMonotone ==
    (impl = "build" /\ wait_path = "exp" /\ prev_path = "exp") => wait >= prev_wait

\* C3: k rate-limit answers followed by a 200 with a JSON object, k < max_attempts:
\* bluer_get_json does not give up before the 200 arrives, and returns after
\* exactly k + 1 GET requests and k backoff waits, with no error.
C3_RetriesThenOk ==
    impl = "build" =>
        /\ (call.outcome = "raised" /\ IsRateLimit(call.last_status))
              => call.rate_limited >= max_attempts
        /\ call.outcome = "returned"
              => /\ call.rate_limited < max_attempts
                 /\ call.gets = call.rate_limited + 1
                 /\ call.backoffs = call.rate_limited
                 /\ call.last_status = 200
                 /\ err = "None"

\* C3 witness: two rate-limit answers, then a 200: three GETs, two retries.
C3_Witness ==
    /\ impl = "build" /\ call.outcome = "returned"
    /\ call.rate_limited = 2 /\ call.gets = 3 /\ call.backoffs = 2
    /\ max_attempts = DefaultMaxAttempts

\* C4: when all max_attempts answers for a page are rate-limit statuses,
\* bluer_get_json raises an HTTP error, the error leaves
\* collect_bluer_restaurants_zone, and the collector returns no list at all.
C4_ExhaustionAborts ==
    impl = "build" =>
        /\ call.rate_limited >= max_attempts
              => /\ pc = "raised" /\ err = "HTTPError"
                 /\ call.outcome = "raised"
        /\ pc = "raised" => ~ret.present
        /\ ret.present => pc = "done"

\* C4 witness: a later page exhausts its attempts after a page with items was
\* fetched; nothing is returned.
C4_Witness ==
    /\ impl = "build" /\ pc = "raised" /\ err = "HTTPError"
    /\ call.rate_limited = max_attempts /\ max_attempts >= 2
    /\ Len(fetched) >= 1 /\ all_items # <<>> /\ ~ret.present

\* C5: collect_bluer_restaurants_zone requests no further page once the last
\* response had no next link, or had an empty item list (page 1 included), or
\* max_pages pages have been fetched.
C5_StopConditions ==
    (impl = "build" /\ NextPageRequested) =>
        /\ Truthy(HalNext(LastPage))
        /\ HalItems(LastPage) # <<>>
        /\ Len(fetched) < max_pages

\* C6: the list collect_bluer_restaurants_zone returns is the concatenation of the
\* item lists of the pages it fetched, in fetch order.
C6_Concatenation ==
    (impl = "build" /\ pc = "done") => ret.present /\ ret.items = Flatten(PageItems)

\* C6 witness: two pages with different non-empty item lists were fetched and
\* the collector has returned.
C6_Witness ==
    /\ impl = "build" /\ pc = "done" /\ Len(fetched) >= 2
    /\ HalItems(fetched[1]) # <<>> /\ HalItems(fetched[2]) # <<>>
    /\ HalItems(fetched[1]) # HalItems(fetched[2])

----
\* The same records up to ordering.
Count(s, x) == Cardinality({i \in 1..Len(s) : s[i] = x})
SameRecords(a, b) ==
    /\ Len(a) = Len(b)
    /\ \A i \in 1..Len(a) : Count(a, a[i]) = Count(b, a[i])

Keys(s) == {KeyOf(s[i]) : i \in 1..Len(s)}

\* lists is ([a], [b]): one record each.
OneEach == Len(lists) = 2 /\ Len(lists[1]) = 1 /\ Len(lists[2]) = 1

\* C7: merge_places is idempotent: with M = merge_places(L1..Ln), merge_places(M)
\* and merge_places(M, M) hold the same records as M, up to ordering.
C7_Idempotent ==
    /\ mpc \in {"again", "twice"} => SameRecords(again, result)
    /\ mpc = "twice" => SameRecords(twice, result)

\* C7 witness: a merge that folded records together and kept several keys has
\* been merged again with itself.
C7_Witness ==
    /\ mpc = "twice"
    /\ Len(result) >= 2
    /\ Len(result) < Len(Flatten(lists))

\* C8: for a record A without address and a record B with the same name and a
\* non-empty address, merge_places([A], [B]) and merge_places([B], [A]) give the
\* same records, and in both every record has the address.
C8_AddressCommutes ==
    (/\ mpc \in {"reversed", "again", "twice"}
     /\ OneEach
     /\ ~Truthy(lists[1][1].address)
     /\ lists[2][1].address.present /\ lists[2][1].address.text # <<>>
     /\ lists[1][1].name = lists[2][1].name)
    => /\ SameRecords(result, result_rev)
       /\ \A i \in 1..Len(result) : result[i].address = lists[2][1].address
       /\ \A i \in 1..Len(result_rev) : result_rev[i].address = lists[2][1].address

\* C9: a list with one record with a name and an empty address, merged with a
\* list with one record with the same name, a non-empty address and both
\* coordinates, yields exactly one record, with that address and those coordinates.
C9_ExampleMerge ==
    (/\ mpc # "idle"
     /\ OneEach
     /\ lists[1][1].address = Str(<<>>)
     /\ Truthy(lists[2][1].address)
     /\ HasCoords(lists[2][1])
     /\ lists[1][1].name = lists[2][1].name)
    => /\ Len(result) = 1
       /\ result[1].address = lists[2][1].address
       /\ result[1].latitude = lists[2][1].latitude
       /\ result[1].longitude = lists[2][1].longitude

\* C10: the output of merge_places has at most one Place per merge key, and every
\* key of the input occurs exactly once in the output.
C10_OnePerKey ==
    mpc # "idle" =>
        LET keys == [i \in 1..Len(result) |-> KeyOf(result[i])]
        IN  /\ \A i, j \in 1..Len(result) : keys[i] = keys[j] => i = j
            /\ {keys[i] : i \in 1..Len(result)} = Keys(Flatten(lists))

\* C10 witness: three input records over two keys gave two output records.
C10_Witness ==
    /\ mpc = "merged"
    /\ Len(Flatten(lists)) = 3
    /\ Cardinality(Keys(Flatten(lists))) = 2
    /\ Len(result) = 2

----
\* The three preferences of the spec's tie-break policy, read on the held record
\* cur and the incoming record p.
SuppliesAddress(cur, p) == ~Truthy(cur.address) /\ Truthy(p.address)
SuppliesCoords(cur, p) == ~HasCoords(cur) /\ HasCoords(p)
SuppliesUrl(cur, p) == ~Truthy(cur.url) /\ Truthy(p.url)

\* C11: when merge_places folds an incoming record p into the held record cur,
\* the survivor is p exactly when p supplies an address, both coordinates or a
\* URL that cur lacks, and cur otherwise; it is always one of the two records
\* as a whole.
C11_TieBreak ==
    \A k \in 1..Len(folds) :
        LET f == folds[k]
            wins == SuppliesAddress(f.cur, f.p) \/ SuppliesCoords(f.cur, f.p)
                       \/ SuppliesUrl(f.cur, f.p)
        IN  /\ wins => f.better = f.p
            /\ ~wins => f.better = f.cur
            /\ f.better \in {f.cur, f.p}

\* C11 witness: one merge in which an incoming record won by its address alone
\* and another, different from the held one, lost.
C11_Witness ==
    /\ \E k \in 1..Len(folds) :
          /\ SuppliesAddress(folds[k].cur, folds[k].p)
          /\ ~SuppliesCoords(folds[k].cur, folds[k].p)
          /\ ~SuppliesUrl(folds[k].cur, folds[k].p)
          /\ folds[k].better = folds[k].p /\ folds[k].p # folds[k].cur
    /\ \E k \in 1..Len(folds) :
          folds[k].better = folds[k].cur /\ folds[k].p # folds[k].cur

\* C12: the GeoJSON written by write_geojson has a feature for a place if and
\* only if the place has both latitude and longitude (one feature, not more); no
\* feature has a null coordinate, and the coordinates of a feature are the
\* longitude and the latitude of its place, in this order.
C12_GeojsonFeatures ==
    epc = "written" =>
        /\ \A i \in 1..Len(out) :
               (\E k \in 1..Len(features) : features[k].pos = i)
                   <=> (out[i].latitude.present /\ out[i].longitude.present)
        /\ \A k, l \in 1..Len(features) : features[k].pos = features[l].pos => k = l
        /\ \A k \in 1..Len(features) :
               LET f == features[k]
               IN  /\ f.pos \in 1..Len(out)
                   /\ f.coordinates[1].present /\ f.coordinates[2].present
                   /\ f.coordinates[1].v = out[f.pos].longitude.v
                   /\ f.coordinates[2].v = out[f.pos].latitude.v

\* Written: a place with both coordinates and its feature, and a place with a
\* longitude only, left out.
C12_Witness ==
    /\ epc = "written"
    /\ Len(features) = 1
    /\ \E i, j \in 1..Len(out) :
           /\ out[i].latitude.present /\ out[i].longitude.present
           /\ features[1].pos = i
           /\ features[1].coordinates[1].v # features[1].coordinates[2].v
           /\ out[j].longitude.present /\ ~out[j].latitude.present

\* C13: every place built from an item, and every place that comes out of
\* merge_places and enrich_with_kakao, has latitude and longitude both present
\* or both absent.
C13_BothOrNeither ==
    /\ \A i \in 1..Len(places) : places[i].latitude.present <=> places[i].longitude.present
    /\ \A i \in 1..Len(out) : out[i].latitude.present <=> out[i].longitude.present

\* C14: in a later enrichment run no keyword search is issued for a place that
\* an earlier run has resolved, be it with a found result or with a confirmed
\* miss.
C14_NoCallForHeldKey ==
    run = "later" => queried \cap (held.found \cup held.missed) = {}

\* C15: a place whose query variants all failed to return a result in the first
\* run is not searched for again in a later run over the same place.
C15_MissNotRetried ==
    \A i \in held.missed : run = "later" => i \notin queried

\* The keyword searches logged for the place enriched last.
Gets == {k \in 1..Len(elog.evs) : elog.evs[k].ev = "get"}

\* The query of each kind for the place p.
QueryOfKind(p, kind) ==
    LET name == Strip(p.name)
    IN  IF kind = 1 THEN name
        ELSE IF kind = 2 THEN name \o <<" ">> \o _extract_gu(p.address).text
        ELSE name \o <<" ">> \o _short_addr(p.address).text

C17_NoKeyNoOp ==
    ~Truthy(api_key) /\ run # "none" =>
        /\ queried = {}
        /\ elog = NoLog
        /\ eerr = "None"
        /\ epc \in {"returned", "written"}
        /\ out = places

\* No key, two places that would be searched for, and the output written.
C17_Witness ==
    /\ ~api_key.present
    /\ epc = "written"
    /\ Len(places) = 2
    /\ \A i \in 1..2 : ~AlreadyEnriched(places[i]) /\ Candidates(places[i]) # <<>>
    /\ out = places

\* C18: an error raised while one place is enriched (HTTP error status,
\* connection error, timeout, parse error) never leaves enrich_with_kakao: the
\* place is left unenriched and the run returns a record for every place.
C18_RecordFailureIsolated ==
    /\ epc # "raised"
    /\ eerr = "None"
    /\ epc \in {"returned", "written"} => Len(out) = Len(places)

\* C19: an answer whose body is not JSON, or not the JSON object expected, is
\* a failed attempt and not a crash: no such answer makes the page fetch end
\* with an exception.
C19_MalformedJsonCaught ==
    pc = "raised" => err \notin {"JSONDecodeError", "TypeError"}

\* A transient failure of a GET: a timeout (no status), a 5xx status, a 429.
TransientFailure(status) == status = 0 \/ status >= 500 \/ status = 429

\* C20: a page fetch that ends with a transient failure (timeout, 5xx, 429 or
\* 503) raised has used up its attempts: the failure was retried up to the cap.
C20_TransientRetried ==
    LET cap == IF impl = "build" THEN max_attempts ELSE ProbeMaxAttempts
    IN  pc = "raised" /\ TransientFailure(call.last_status) => call.gets >= cap

\* C21: after a rate-limit answer at attempt n (1..max_attempts) bluer_get_json
\* waits min(120, 2^n + jitter) seconds, jitter in [0, 1], when Retry-After is
\* not numeric, and the number of seconds of Retry-After when it is.
C21_WaitFormula ==
    impl = "build" /\ attempt >= 1 /\ IsRateLimit(call.last_status) =>
        /\ wait_path = "exp" =>
               \E j \in 0..JitterSteps :
                   wait = Min(BackoffCapS * JitterSteps, Pow2(attempt) * JitterSteps + j)
        /\ wait_path = "retry_after" =>
               \E h \in RetryAfterHeaders :
                   /\ NumericRetryAfter(h)
                   /\ wait = ParseDigits(Strip(h.text)) * JitterSteps

\* The page fetch loop is over: the collector returned or an exception left it.
Terminated == pc \in {"done", "raised"}

\* C23: collect_bluer_restaurants_zone terminates whatever the server answers:
\* it fetches at most max(1, max_pages) pages, issues at most max_attempts GETs
\* for each, and eventually returns or raises.
C23_Terminates ==
    /\ [](impl = "build" =>
             /\ Len(fetched) <= (IF max_pages >= 1 THEN max_pages ELSE 1)
             /\ page_num <= (IF max_pages >= 1 THEN max_pages ELSE 1)
             /\ call.gets <= max_attempts)
    /\ <>Terminated

\* The server gave a next link and items on every page and rate-limited a
\* request of the last one: the collector stopped at max_pages pages.
C23_Witness ==
    /\ impl = "build" /\ pc = "done"
    /\ max_pages >= 2 /\ Len(fetched) = max_pages
    /\ Truthy(next_href)
    /\ \A i \in 1..Len(fetched) : HalItems(fetched[i]) # <<>>
    /\ call.rate_limited >= 1

\* C24: collect_restaurants_hal retries after a 429 on every page it requests,
\* the first included: the collection is never aborted by a single 429, and a
\* 429 is always followed by a backoff.
C24_ProbeRetries429 ==
    impl = "probe" /\ call.last_status = 429 /\ call.gets >= 1 =>
        /\ call.backoffs = call.rate_limited
        /\ pc = "raised" => call.rate_limited > 1

\* C28: the list enrich_with_kakao returns has the length and the order of its
\* input; a record differs from its input record in kakao_id and kakao_url at
\* most; a record that came with a kakao_id or kakao_url is returned as it is
\* and no keyword search is issued for it.
C28_EnrichFrame ==
    epc \in {"enrich", "returned", "written"} =>
        /\ Len(out) <= Len(places)
        /\ epc \in {"returned", "written"} => Len(out) = Len(places)
        /\ \A i \in 1..Len(out) :
               /\ [out[i] EXCEPT !.kakao_id = places[i].kakao_id,
                                 !.kakao_url = places[i].kakao_url] = places[i]
               /\ AlreadyEnriched(places[i]) => out[i] = places[i]
        /\ \A i \in 1..Len(places) : AlreadyEnriched(places[i]) => i \notin queried

\* A later run over two records: one came with a kakao_id and is passed on, the
\* other gets its kakao_id in this run.
C28_Witness ==
    /\ run = "later" /\ epc = "returned"
    /\ Len(places) = 2
    /\ \E i, j \in 1..2 :
           /\ AlreadyEnriched(places[i]) /\ out[i] = places[i]
           /\ ~AlreadyEnriched(places[j]) /\ Truthy(out[j].kakao_id)

DiscoverGets == SelectSeq(dlog, LAMBDA e : e.ev = "get")

\* The answer tells that more pages follow: 200 with meta.is_end false.
TellsMore(e) ==
    e.answer = "200" /\ e.meta.present /\ e.meta.has_is_end /\ ~e.meta.is_end

\* C26: discover_restaurants requests at most 3 pages, in the order 1, 2, 3, and
\* none after a page that was not answered 200, raised a network error or
\* reported is_end (a missing meta counts as the end); it returns at most
\* max_results documents, in page order, those of the pages fetched before a
\* failure included.
C26_DiscoverPages ==
    /\ Len(DiscoverGets) <= 3
    /\ \A k \in 1..Len(DiscoverGets) :
           /\ DiscoverGets[k].page = k
           /\ k < Len(DiscoverGets) => TellsMore(DiscoverGets[k])
    /\ dpc = "returned" =>
           /\ dret.present
           /\ Len(dret.items) <= max_results
           /\ dret.items = SubSeq(all_places, 1, Len(dret.items))
           /\ Len(dret.items) = max_results \/ dret.items = all_places

\* Two pages of documents were fetched, the third request failed, and the
\* documents of the two pages are returned, cut at max_results.
C26_Witness ==
    /\ dpc = "returned"
    /\ Len(DiscoverGets) = 3
    /\ DiscoverGets[3].answer \in {"status", "network error"}
    /\ Len(all_places) = 3
    /\ max_results = 2
    /\ dret.items = <<all_places[1], all_places[2]>>

\* C22: between any two consecutive HTTP requests of a pipeline at least one
\* sleep is executed; here for the Kakao discovery: no two requests of
\* discover_restaurants follow each other without a sleep in between.
C22_SleepBetweenRequests ==
    \A k \in 1..(Len(dlog) - 1) : ~(dlog[k].ev = "get" /\ dlog[k + 1].ev = "get")

\* The calls of evaluate_restaurant so far, by model.
CallsOf(who) == {k \in 1..Len(clog) : clog[k].who = who}

\* C27: evaluate_restaurant calls the critic only after the analyst call has
\* returned and reported serves_target_food true; when the analyst rejects,
\* the result is the score-0 record with award level "None" and the critic is
\* not called; when the analyst call or its parsing fails, the result is None
\* and the critic is not called; a critic failure yields None.
C27_CriticAfterAnalyst ==
    /\ \A k \in CallsOf("critic") :
          /\ k = 2 /\ clog[1].who = "analyst"
          /\ clog[1].answer.how = "returns"
          /\ clog[1].answer.shape \in {"object", "list of object"}
          /\ clog[1].answer.serves_target_food = BoolMember(TRUE)
    /\ \A k \in CallsOf("analyst") :
          LET a == clog[k].answer
          IN  /\ k = 1
              /\ (a.how = "returns" /\ a.shape \in {"object", "list of object"}
                    /\ a.serves_target_food = BoolMember(FALSE))
                  => /\ cpc = "returned" /\ CallsOf("critic") = {}
                     /\ evaluation.present /\ evaluation.score = 0
                     /\ evaluation.award_level = "None"
              /\ (a.how = "raises" \/ a.shape = "not json")
                  => /\ cpc = "returned" /\ CallsOf("critic") = {}
                     /\ ~evaluation.present
    /\ \A k \in CallsOf("critic") :
          (clog[k].answer.how = "raises" \/ clog[k].answer.shape = "not json")
              => cpc = "returned" /\ ~evaluation.present

\* The critic was called on the analyst's facts and failed.
C27_Witness ==
    /\ cpc = "returned" /\ Len(clog) = 2
    /\ clog[1].answer.serves_target_food = BoolMember(TRUE)
    /\ clog[2].who = "critic" /\ clog[2].answer.how = "raises"
    /\ extracted_facts = "facts"
    /\ ~evaluation.present

\* C29: michelin_list_page_urls terminates after requesting at most 50 list
\* pages, whatever the server answers: it stops at a 404, at a page without
\* restaurant links, at a page that adds no new URL or at the page limit (or
\* the request raises), and the list it returns has no duplicates.
C29_ListPagesTerminate ==
    /\ [](/\ list_gets <= MichelinPageLimit
          /\ lpc = "returned" =>
                /\ stopped \in {"404", "no links", "no new", "limit"}
                /\ \A j, k \in 1..Len(urls) : urls[j] = urls[k] => j = k)
    /\ <>(lpc \in {"returned", "raised"})

\* The page limit ended the loop, after pages that linked to URLs collected
\* before.
C29_Witness ==
    /\ lpc = "returned" /\ stopped = "limit"
    /\ list_gets = MichelinPageLimit
    /\ Len(urls) > MichelinPageLimit
    /\ \E k \in 1..(Len(urls) - 1) : urls[k] > urls[k + 1]

\* C25: over any sequence of runs of run_massive_pipeline on one review-queue
\* CSV that was empty or free of duplicates at first, runs interrupted at any
\* point included, no two rows of the CSV carry the same restaurant name, and
\* no restaurant that has a row is searched, scraped or evaluated again.
C25_NoDuplicateRows ==
    /\ \A name \in PlaceNames : Cardinality(RowsOf(name)) <= 1
    /\ redone = {}
====
